---- MODULE Spec2Model ----
(***************************************************************************)
(* Model of src/main.py: the "Song Pengsawang API" backend.  One process   *)
(* instance imports the module (fixing db and the seed constants), runs    *)
(* on_startup (ensure_indexes, seed_data) and then serves GET /metrics,    *)
(* GET /reels, POST /contact and GET /health against an optional document  *)
(* store.  Every store round trip may raise.                               *)
(*                                                                         *)
(* Representation: a Python dict is a function from key strings to values; *)
(* None is the string "None"; a datetime is a clock reading (an integer);  *)
(* the float engagement_rate is kept in tenths (8.7 is 87); a URL is the   *)
(* tuple <<scheme, host, path>>; an e-mail address is its sequence of      *)
(* characters.                                                             *)
(***************************************************************************)
EXTENDS Integers, Sequences, FiniteSets, TLC

\* ---- bounds of the model ------------------------------------------------
MaxClock == 1
MaxContacts == 1
ExtraReels == 1

\* ---- program constants --------------------------------------------------
ReelCeiling == 50
DefaultLimit == 20

None == "None"
COL_METRIC == "metric"
COL_REEL == "reel"
COL_CONTACT == "contactmessage"
Collections == {COL_METRIC, COL_REEL, COL_CONTACT}

Procs == {"p1", "p2"}
Instance == "p1"

Min(a, b) == IF a < b THEN a ELSE b

VARIABLES db, pc, loop, store, indexes, now, importTime, resp

vars == <<db, pc, loop, store, indexes, now, importTime, resp>>

\* ---- Pydantic schemas ---------------------------------------------------
HttpUrlValid(u) == Len(u) = 3 /\ u[1] \in {"http", "https"} /\ u[2] # ""

AtPositions(e) == {i \in 1..Len(e) : e[i] = "@"}

EmailStrValid(e) ==
    /\ Cardinality(AtPositions(e)) = 1
    /\ LET at == CHOOSE i \in AtPositions(e) : TRUE
           dots == {i \in (at + 1)..Len(e) : e[i] = "."}
       IN  /\ at > 1
           /\ at < Len(e)
           /\ dots # {}
           /\ \A i \in dots : i > at + 1 /\ i < Len(e)

MetricValid(d) ==
    /\ {"platform", "followers", "avg_views", "engagement_rate"} \subseteq DOMAIN d
    /\ d["followers"] >= 0
    /\ d["avg_views"] >= 0
    /\ d["engagement_rate"] >= 0

Metric(d, t) ==
    [platform |-> d["platform"],
     followers |-> d["followers"],
     avg_views |-> d["avg_views"],
     engagement_rate |-> d["engagement_rate"],
     last_updated |-> IF "last_updated" \in DOMAIN d THEN d["last_updated"] ELSE t]

ReelValid(d) ==
    /\ {"title", "thumbnail_url"} \subseteq DOMAIN d
    /\ "id" \notin DOMAIN d
    /\ HttpUrlValid(d["thumbnail_url"])
    /\ ("video_url" \in DOMAIN d /\ d["video_url"] # None) => HttpUrlValid(d["video_url"])

Reel(rid, d, t) ==
    [id |-> rid,
     title |-> d["title"],
     thumbnail_url |-> d["thumbnail_url"],
     video_url |-> IF "video_url" \in DOMAIN d THEN d["video_url"] ELSE None,
     views |-> IF "views" \in DOMAIN d THEN d["views"] ELSE 0,
     likes |-> IF "likes" \in DOMAIN d THEN d["likes"] ELSE 0,
     hashtags |-> IF "hashtags" \in DOMAIN d THEN d["hashtags"] ELSE <<>>,
     posted_at |-> IF "posted_at" \in DOMAIN d THEN d["posted_at"] ELSE t]

\* variant: email declared as str, not EmailStr
ContactMessageUnvalidated(p) == {"name", "email", "message"} \subseteq DOMAIN p

ContactMessageValid(p) ==
    /\ {"name", "email", "message"} \subseteq DOMAIN p
    /\ EmailStrValid(p["email"])

\* payload.model_dump(): the declared fields only, extra keys are dropped
model_dump(p) ==
    [name |-> p["name"],
     email |-> p["email"],
     company |-> IF "company" \in DOMAIN p THEN p["company"] ELSE None,
     message |-> p["message"],
     topic |-> IF "topic" \in DOMAIN p THEN p["topic"] ELSE None]

\* ---- seed constants -----------------------------------------------------
SEED_METRICS(imp) ==
    << [platform |-> "Instagram",
        followers |-> 1250000,
        avg_views |-> 1500000,
        engagement_rate |-> 87,
        last_updated |-> imp] >>

SEED_REELS ==
    << [title |-> "Pad work with a twist",
        thumbnail_url |-> <<"https", "images.unsplash.com",
            "/photo-1605296867304-46d5465a13f1?q=80&w=1200&auto=format&fit=crop">>,
        video_url |-> <<"https", "www.example.com", "/reel1.mp4">>,
        views |-> 2300000,
        likes |-> 340000,
        hashtags |-> <<"#muaythai", "#twerk", "#funnytraining">>],
       [title |-> "Elbows, knees & giggles",
        thumbnail_url |-> <<"https", "images.unsplash.com",
            "/photo-1544916601-0aa3f82a1f2d?q=80&w=1200&auto=format&fit=crop">>,
        video_url |-> <<"https", "www.example.com", "/reel2.mp4">>,
        views |-> 1800000,
        likes |-> 280000,
        hashtags |-> <<"#muaythai", "#reels", "#songpengsawang">>] >>

IndexSpecs ==
    << [col |-> COL_REEL, key |-> "posted_at"],
       [col |-> COL_REEL, key |-> "views:-1"],
       [col |-> COL_CONTACT, key |-> "email"] >>

\* ---- Python helpers -----------------------------------------------------
\* s[:n]
PySlicePrefix(s, n) ==
    IF n >= 0 THEN SubSeq(s, 1, Min(n, Len(s)))
    ELSE IF Len(s) + n > 0 THEN SubSeq(s, 1, Len(s) + n) ELSE <<>>

\* d.pop("_id", None)
pop_id(d) == [k \in DOMAIN d \ {"_id"} |-> d[k]]

\* str(d.get("_id")) if d.get("_id") else None
reel_id(d) == IF "_id" \in DOMAIN d /\ d["_id"] # 0 THEN ToString(d["_id"]) ELSE None

NotConfiguredMessage == "Database is not configured. Set DATABASE_URL and DATABASE_NAME."
StoreErrorMessage == "store operation failed"

\* ---- database helpers ---------------------------------------------------
\* lim is <<>> when the caller passes no limit, <<n>> otherwise; ok is the
\* outcome of the store round trip.
database_get_documents(coll, lim, ok) ==
    IF ~ok THEN [raised |-> TRUE, detail |-> StoreErrorMessage, docs |-> <<>>]
    ELSE [raised |-> FALSE, detail |-> "",
          docs |-> IF lim = <<>> THEN coll
                   ELSE IF lim[1] <= 0 THEN <<>>
                   ELSE SubSeq(coll, 1, Min(lim[1], Len(coll)))]

database_create_document(coll, data, ok) ==
    IF ~ok THEN [raised |-> TRUE, detail |-> StoreErrorMessage, id |-> None, coll |-> coll]
    ELSE [raised |-> FALSE, detail |-> "", id |-> ToString(Len(coll) + 1),
          coll |-> Append(coll, ("_id" :> (Len(coll) + 1)) @@ data)]

get_documents(dbv, coll, lim, ok) ==
    IF dbv = None
    THEN [raised |-> TRUE, detail |-> NotConfiguredMessage, docs |-> <<>>]
    ELSE database_get_documents(coll, lim, ok)

create_document(dbv, coll, data, ok) ==
    IF dbv = None
    THEN [raised |-> TRUE, detail |-> NotConfiguredMessage, id |-> None, coll |-> coll]
    ELSE database_create_document(coll, data, ok)

\* ---- route handlers (the value returned to the client) ------------------
Call(fn, col, raised) == [fn |-> fn, col |-> col, raised |-> raised]

\* an exception that leaves a handler: the framework answers 500
unhandled(op, args, calls) ==
    [op |-> op, args |-> args, status |-> 500, items |-> <<>>,
     json |-> [detail |-> "Internal Server Error"], calls |-> calls]

\* variant: the fallback of get_metrics returns no record
metrics_fallback_none(imp, t) == <<>>

\* [Metric(**m) for m in SEED_METRICS]
metrics_fallback(imp, t) ==
    [i \in 1..Len(SEED_METRICS(imp)) |-> Metric(SEED_METRICS(imp)[i], t)]

\* variant: the fallback of get_reels without the [:limit] slice
reels_fallback_unsliced(limit, t) ==
    [i \in 1..Len(SEED_REELS) |-> Reel(None, SEED_REELS[i], t)]

\* [Reel(**r) for r in SEED_REELS][:limit]
reels_fallback(limit, t) ==
    PySlicePrefix([i \in 1..Len(SEED_REELS) |-> Reel(None, SEED_REELS[i], t)], limit)

\* "except Exception" of get_metrics and of get_reels: exc is the class of
\* the exception raised in the try block
get_metrics_except(exc) == exc \in {"Exception", "ValidationError"}

\* variant: get_reels catches validation errors only
get_reels_except_narrow(exc) == exc = "ValidationError"

get_reels_except(exc) == exc \in {"Exception", "ValidationError"}

\* variant: the requested limit is passed through
uncapped_limit(limit) == limit

\* min(limit, 50)
capped_limit(limit) == Min(limit, ReelCeiling)

\* variant: get_metrics also falls back when the store returns no document
get_metrics_seed_when_empty(dbv, coll, ok, imp, t) ==
    LET r == get_documents(dbv, coll, <<>>, ok)
        calls == <<Call("get_documents", COL_METRIC, r.raised)>>
        valid == \A i \in 1..Len(r.docs) : MetricValid(pop_id(r.docs[i]))
    IN  [op |-> "GET /metrics",
         args |-> <<>>,
         status |-> 200,
         items |-> IF r.raised \/ ~valid \/ r.docs = <<>> THEN metrics_fallback(imp, t)
                   ELSE [i \in 1..Len(r.docs) |-> Metric(pop_id(r.docs[i]), t)],
         json |-> <<>>,
         calls |-> calls]

get_metrics(dbv, coll, ok, imp, t) ==
    LET r == get_documents(dbv, coll, <<>>, ok)
        exc == IF r.raised THEN "Exception"
               ELSE IF \E i \in 1..Len(r.docs) : ~MetricValid(pop_id(r.docs[i]))
                    THEN "ValidationError" ELSE None
        calls == <<Call("get_documents", COL_METRIC, r.raised)>>
    IN  IF exc # None /\ ~get_metrics_except(exc)
        THEN unhandled("GET /metrics", <<>>, calls)
        ELSE [op |-> "GET /metrics",
              args |-> <<>>,
              status |-> 200,
              items |-> IF exc # None THEN metrics_fallback(imp, t)
                        ELSE [i \in 1..Len(r.docs) |-> Metric(pop_id(r.docs[i]), t)],
              json |-> <<>>,
              calls |-> calls]

get_reels(dbv, coll, limit, ok, t) ==
    LET r == get_documents(dbv, coll, <<capped_limit(limit)>>, ok)
        exc == IF r.raised THEN "Exception"
               ELSE IF \E i \in 1..Len(r.docs) : ~ReelValid(pop_id(r.docs[i]))
                    THEN "ValidationError" ELSE None
        calls == <<Call("get_documents", COL_REEL, r.raised)>>
    IN  IF exc # None /\ ~get_reels_except(exc)
        THEN unhandled("GET /reels", [limit |-> limit], calls)
        ELSE [op |-> "GET /reels",
              args |-> [limit |-> limit],
              status |-> 200,
              items |-> IF exc # None THEN reels_fallback(limit, t)
                        ELSE [i \in 1..Len(r.docs) |->
                                 Reel(reel_id(r.docs[i]), pop_id(r.docs[i]), t)],
              json |-> <<>>,
              calls |-> calls]

\* variant: submit_contact calls create_document whatever db is
contact_db_unchecked(dbv) == TRUE

\* "if db is not None" of submit_contact
contact_db_configured(dbv) == dbv # None

\* return {"status": "ok", "id": ...}
contact_ok(payload, id, calls) ==
    [op |-> "POST /contact", args |-> payload, status |-> 200, items |-> <<>>,
     json |-> [status |-> "ok", id |-> id], calls |-> calls]

\* variant: the except clause of submit_contact answers ok without an id
contact_failure_swallowed(payload, detail, calls) ==
    [op |-> "POST /contact", args |-> payload, status |-> 200, items |-> <<>>,
     json |-> [status |-> "ok", id |-> None], calls |-> calls]

\* raise HTTPException(status_code=500, detail=str(e))
contact_failure(payload, detail, calls) ==
    [op |-> "POST /contact", args |-> payload, status |-> 500, items |-> <<>>,
     json |-> [detail |-> detail], calls |-> calls]

\* variant: a received_at of the request body is kept
contact_data_trusting(payload, t) ==
    IF "received_at" \in DOMAIN payload
    THEN ("received_at" :> payload["received_at"]) @@ model_dump(payload)
    ELSE ("received_at" :> t) @@ model_dump(payload)

\* data = payload.model_dump(); data["received_at"] = datetime.now(timezone.utc)
contact_data(payload, t) == ("received_at" :> t) @@ model_dump(payload)

\* the request body is validated against ContactMessage before the handler
\* body runs; returns the response and the contact collection afterwards
submit_contact(dbv, coll, payload, ok, t) ==
    IF ~ContactMessageValid(payload)
    THEN [resp |-> [op |-> "POST /contact", args |-> payload, status |-> 422,
                    items |-> <<>>, json |-> [detail |-> "validation error"],
                    calls |-> <<>>],
          coll |-> coll]
    ELSE LET data == contact_data(payload, t)
             r == create_document(dbv, coll, data, ok)
             calls == <<Call("create_document", COL_CONTACT, r.raised)>>
         IN  IF contact_db_configured(dbv)
             THEN IF r.raised
                  THEN [resp |-> contact_failure(payload, r.detail, calls), coll |-> r.coll]
                  ELSE [resp |-> contact_ok(payload, r.id, calls), coll |-> r.coll]
             ELSE [resp |-> contact_ok(payload, None, <<>>), coll |-> coll]

health(dbv) ==
    [op |-> "GET /health", args |-> <<>>, status |-> 200, items |-> <<>>,
     json |-> [backend |-> "ok",
               database |-> IF dbv # None THEN "connected" ELSE "not_configured"],
     calls |-> <<>>]

\* ---- inputs and initial store contents ----------------------------------
Limits == {-2, -1, 0, 1, 2, 3, DefaultLimit, 1000}

ValidEmail == <<"a", "@", "b", ".", "c">>
InvalidEmail == <<"a", "b", ".", "c">>

Payloads ==
    { [name |-> "Ann", email |-> ValidEmail, message |-> "hi"],
      [name |-> "Ann", email |-> InvalidEmail, message |-> "hi"],
      [name |-> "Ann", email |-> ValidEmail, message |-> "hi",
       received_at |-> MaxClock + 1] }

StoredReel(i) ==
    [_id |-> i, title |-> "Stored reel",
     thumbnail_url |-> <<"https", "cdn.example.com", "/thumb.jpg">>, views |-> i]

CorruptReel ==
    [_id |-> 1, title |-> "Broken reel", thumbnail_url |-> <<"", "", "not a url">>]

CorruptMetric ==
    [_id |-> 1, platform |-> "TikTok", followers |-> -1, avg_views |-> 0,
     engagement_rate |-> 0]

InitMetrics == { <<>>, <<CorruptMetric>> }

InitReels ==
    { <<>>, <<CorruptReel>>, [i \in 1..(ReelCeiling + ExtraReels) |-> StoredReel(i)] }

NoResponse ==
    [op |-> "none", args |-> <<>>, status |-> 0, items |-> <<>>, json |-> <<>>,
     calls |-> <<>>]

Init ==
    /\ db \in {None, "Connected"}
    /\ pc = [p \in Procs |-> "init"]
    /\ loop = [p \in Procs |-> 0]
    /\ store \in { (COL_METRIC :> m) @@ (COL_REEL :> r) @@ (COL_CONTACT :> <<>>) :
                     m \in InitMetrics, r \in InitReels }
    /\ indexes = {}
    /\ now = 0
    /\ importTime = [p \in Procs |-> 0]
    /\ resp = NoResponse

\* ---- startup ------------------------------------------------------------
\* variant: on_startup without its try/except, the exception ends the process
on_startup_reraised == "crashed"

\* where on_startup continues after its except clause
on_startup_caught == "serving"

\* variant: seed_data inserts without the empty check
needs_seed_always(coll) == TRUE

\* variant: seed_data seeds a collection that holds fewer than two documents
needs_seed_incomplete(coll) == Len(coll) < 2

\* variant: the empty check of seed_data never passes
needs_seed_never(coll) == FALSE

\* count_documents({}) == 0
needs_seed(coll) == Len(coll) = 0

\* "if db is None: return" of ensure_indexes
ensure_indexes_returns(dbv) == dbv = None

\* variant: seed_data without its "if db is None: return"
seed_data_returns_never(dbv) == FALSE

\* "if db is None: return" of seed_data
seed_data_returns(dbv) == dbv = None

\* ensure_indexes(): the three create_index calls; the k-th may raise
EnsureIndexes(p) ==
    /\ pc[p] = "init"
    /\ IF ensure_indexes_returns(db)
       THEN /\ pc' = [pc EXCEPT ![p] = "seed_data"]
            /\ UNCHANGED indexes
       ELSE \E k \in 0..Len(IndexSpecs) :
              /\ indexes' = indexes \cup {IndexSpecs[i] : i \in 1..k}
              /\ pc' = [pc EXCEPT ![p] = IF k = Len(IndexSpecs) THEN "seed_data"
                                         ELSE on_startup_caught]
    /\ UNCHANGED <<db, loop, store, now, importTime, resp>>

\* seed_data(): db check and the count of the metric collection
CountMetric(p) ==
    /\ pc[p] = "seed_data"
    /\ IF seed_data_returns(db)
       THEN pc' = [pc EXCEPT ![p] = "serving"] /\ UNCHANGED loop
       ELSE \E ok \in BOOLEAN :
              IF ~ok THEN pc' = [pc EXCEPT ![p] = on_startup_caught] /\ UNCHANGED loop
              ELSE IF needs_seed(store[COL_METRIC])
                   THEN /\ pc' = [pc EXCEPT ![p] = "seed_metric"]
                        /\ loop' = [loop EXCEPT ![p] = 1]
                   ELSE pc' = [pc EXCEPT ![p] = "count_reel"] /\ UNCHANGED loop
    /\ UNCHANGED <<db, store, indexes, now, importTime, resp>>

\* one iteration of: for m in SEED_METRICS: create_document(COL_METRIC, m)
SeedMetric(p) ==
    /\ pc[p] = "seed_metric"
    /\ \E ok \in BOOLEAN :
         LET r == create_document(db, store[COL_METRIC],
                                  SEED_METRICS(importTime[p])[loop[p]], ok)
         IN  IF r.raised
             THEN /\ pc' = [pc EXCEPT ![p] = on_startup_caught]
                  /\ loop' = [loop EXCEPT ![p] = 0]
                  /\ UNCHANGED store
             ELSE /\ store' = [store EXCEPT ![COL_METRIC] = r.coll]
                  /\ IF loop[p] < Len(SEED_METRICS(importTime[p]))
                     THEN /\ loop' = [loop EXCEPT ![p] = loop[p] + 1]
                          /\ UNCHANGED pc
                     ELSE /\ loop' = [loop EXCEPT ![p] = 0]
                          /\ pc' = [pc EXCEPT ![p] = "count_reel"]
    /\ UNCHANGED <<db, indexes, now, importTime, resp>>

CountReel(p) ==
    /\ pc[p] = "count_reel"
    /\ \E ok \in BOOLEAN :
         IF ~ok THEN pc' = [pc EXCEPT ![p] = on_startup_caught] /\ UNCHANGED loop
         ELSE IF needs_seed(store[COL_REEL])
              THEN /\ pc' = [pc EXCEPT ![p] = "seed_reel"]
                   /\ loop' = [loop EXCEPT ![p] = 1]
              ELSE pc' = [pc EXCEPT ![p] = "serving"] /\ UNCHANGED loop
    /\ UNCHANGED <<db, store, indexes, now, importTime, resp>>

\* one iteration of: for r in SEED_REELS: create_document(COL_REEL, r)
SeedReel(p) ==
    /\ pc[p] = "seed_reel"
    /\ \E ok \in BOOLEAN :
         LET r == create_document(db, store[COL_REEL], SEED_REELS[loop[p]], ok)
         IN  IF r.raised
             THEN /\ pc' = [pc EXCEPT ![p] = on_startup_caught]
                  /\ loop' = [loop EXCEPT ![p] = 0]
                  /\ UNCHANGED store
             ELSE /\ store' = [store EXCEPT ![COL_REEL] = r.coll]
                  /\ IF loop[p] < Len(SEED_REELS)
                     THEN /\ loop' = [loop EXCEPT ![p] = loop[p] + 1]
                          /\ UNCHANGED pc
                     ELSE /\ loop' = [loop EXCEPT ![p] = 0]
                          /\ pc' = [pc EXCEPT ![p] = "serving"]
    /\ UNCHANGED <<db, indexes, now, importTime, resp>>

\* ---- requests -----------------------------------------------------------
\* variant: a failed read makes the process forget its store handle
GetMetricsDropsHandle(p) ==
    /\ pc[p] = "serving"
    /\ \E ok \in BOOLEAN :
         /\ resp' = get_metrics(db, store[COL_METRIC], ok, importTime[p], now)
         /\ db' = IF ok THEN db ELSE None
    /\ UNCHANGED <<pc, loop, store, indexes, now, importTime>>

GetMetrics(p) ==
    /\ pc[p] = "serving"
    /\ \E ok \in BOOLEAN :
         resp' = get_metrics(db, store[COL_METRIC], ok, importTime[p], now)
    /\ UNCHANGED <<db, pc, loop, store, indexes, now, importTime>>

GetReels(p) ==
    /\ pc[p] = "serving"
    /\ \E limit \in Limits, ok \in BOOLEAN :
         resp' = get_reels(db, store[COL_REEL], limit, ok, now)
    /\ UNCHANGED <<db, pc, loop, store, indexes, now, importTime>>

SubmitContact(p) ==
    /\ pc[p] = "serving"
    /\ \E payload \in Payloads, ok \in BOOLEAN :
         LET r == submit_contact(db, store[COL_CONTACT], payload, ok, now)
         IN  /\ Len(r.coll) <= MaxContacts
             /\ resp' = r.resp
             /\ store' = [store EXCEPT ![COL_CONTACT] = r.coll]
    /\ UNCHANGED <<db, pc, loop, indexes, now, importTime>>

Health(p) ==
    /\ pc[p] = "serving"
    /\ resp' = health(db)
    /\ UNCHANGED <<db, pc, loop, store, indexes, now, importTime>>

\* the process is started again: the module is imported anew (SEED_METRICS
\* takes the current time) and on_startup runs again
Restart(p) ==
    /\ pc[p] = "serving"
    /\ pc' = [pc EXCEPT ![p] = "init"]
    /\ importTime' = [importTime EXCEPT ![p] = now]
    /\ UNCHANGED <<db, loop, store, indexes, now, resp>>

Tick ==
    /\ now < MaxClock
    /\ now' = now + 1
    /\ UNCHANGED <<db, pc, loop, store, indexes, importTime, resp>>

Next ==
    \/ EnsureIndexes(Instance)
    \/ CountMetric(Instance)
    \/ SeedMetric(Instance)
    \/ CountReel(Instance)
    \/ SeedReel(Instance)
    \/ GetMetrics(Instance)
    \/ GetReels(Instance)
    \/ SubmitContact(Instance)
    \/ Health(Instance)
    \/ Restart(Instance)
    \/ Tick

Spec == Init /\ [][Next]_vars

\* ---- properties ---------------------------------------------------------
IsSeedMetric(m) ==
    /\ m.platform = "Instagram"
    /\ m.followers = 1250000
    /\ m.avg_views = 1500000
    /\ m.engagement_rate = 87

CatalogTitles == <<"Pad work with a twist", "Elbows, knees & giggles">>
CatalogViews == <<2300000, 1800000>>

\* items is the first Len(items) reels of the Fallback Catalog
IsCatalogPrefix(items) ==
    /\ Len(items) <= Len(CatalogTitles)
    /\ \A i \in 1..Len(items) :
         /\ items[i].title = CatalogTitles[i]
         /\ items[i].views = CatalogViews[i]
         /\ items[i].id = None

ReadFailed == resp.op \in {"GET /metrics", "GET /reels"} /\ resp.calls[1].raised

\* C1: with db None, GET /metrics answers 200 with exactly one record, the
\* seed metric (Instagram, 1250000 followers, 1500000 average views, 8.7
\* engagement), whatever requests came before.
C1_UnconfiguredMetricsIsSeed ==
    (db = None /\ resp.op = "GET /metrics") =>
        /\ resp.status = 200
        /\ Len(resp.items) = 1
        /\ IsSeedMetric(resp.items[1])

C1_Witness ==
    /\ db = None
    /\ resp.op = "GET /metrics"
    /\ Len(resp.items) = 1
    /\ now > 0

\* C2: with db None, GET /reels?limit=N with N >= 1 answers the first
\* min(N, 2) reels of the Fallback Catalog, never more than N; for N = 1 it
\* is exactly "Pad work with a twist".
C2_UnconfiguredReelsPrefix ==
    (db = None /\ resp.op = "GET /reels" /\ resp.args.limit >= 1) =>
        /\ resp.status = 200
        /\ Len(resp.items) = Min(resp.args.limit, 2)
        /\ Len(resp.items) <= resp.args.limit
        /\ IsCatalogPrefix(resp.items)

C2_Witness ==
    /\ db = None
    /\ resp.op = "GET /reels"
    /\ resp.args.limit = 1
    /\ Len(resp.items) = 1
    /\ resp.items[1].title = "Pad work with a twist"

\* C3: a read whose store call raised (db None, or db connected and the
\* operation failed) still answers 200, with Fallback Catalog data.
C3_ReadFailureNeverSurfaced ==
    ReadFailed =>
        /\ resp.status = 200
        /\ resp.op = "GET /metrics" => (Len(resp.items) = 1 /\ IsSeedMetric(resp.items[1]))
        /\ resp.op = "GET /reels" => IsCatalogPrefix(resp.items)

C3_Witness ==
    /\ db # None
    /\ resp.op = "GET /reels"
    /\ resp.calls[1].raised
    /\ Len(resp.items) = 2

HoldsSeedMetrics ==
    \E j \in 1..Len(store[COL_METRIC]) : IsSeedMetric(store[COL_METRIC][j])

HoldsSeedReels ==
    \A i \in 1..Len(CatalogTitles) :
        \E j \in 1..Len(store[COL_REEL]) : store[COL_REEL][j].title = CatalogTitles[i]

\* C4: once the metric and reel collections hold the seed documents, no
\* step of any later startup changes the number of documents in either.
C4_SeederIdempotent ==
    [][(HoldsSeedMetrics /\ HoldsSeedReels) =>
          /\ Len(store'[COL_METRIC]) = Len(store[COL_METRIC])
          /\ Len(store'[COL_REEL]) = Len(store[COL_REEL])]_vars

\* a second startup has passed the metric check of an already seeded store
C4_Witness ==
    /\ HoldsSeedMetrics
    /\ HoldsSeedReels
    /\ pc[Instance] = "count_reel"

\* C5: POST /contact on a connected store whose insert raised answers with a
\* 500-class status and not with status "ok" or catalog data.
C5_ContactWriteFailureSurfaced ==
    (db # None /\ resp.op = "POST /contact" /\ resp.calls # <<>> /\ resp.calls[1].raised) =>
        /\ resp.status >= 500
        /\ resp.status < 600
        /\ "status" \notin DOMAIN resp.json
        /\ resp.items = <<>>

C5_Witness ==
    /\ db # None
    /\ resp.op = "POST /contact"
    /\ resp.calls # <<>>
    /\ resp.calls[1].raised
    /\ resp.status = 500

\* C6: POST /contact with a valid body and db None answers
\* {status: "ok", id: None} with status 200, calls no store function and
\* leaves the contact collection as it was.
C6_UnconfiguredContactNoOp ==
    (db = None /\ resp.op = "POST /contact" /\ ContactMessageValid(resp.args)) =>
        /\ resp.status = 200
        /\ resp.json = [status |-> "ok", id |-> None]
        /\ resp.calls = <<>>
        /\ store[COL_CONTACT] = <<>>

C6_Witness ==
    /\ db = None
    /\ resp.op = "POST /contact"
    /\ ContactMessageValid(resp.args)
    /\ resp.status = 200

\* C7: POST /contact with an invalid e-mail address is answered by the
\* validation error and makes no store call, whatever db is.
C7_InvalidEmailNoStoreCall ==
    (resp.op = "POST /contact" /\ ~EmailStrValid(resp.args["email"])) =>
        /\ resp.status = 422
        /\ resp.calls = <<>>

C7_Witness ==
    /\ db # None
    /\ resp.op = "POST /contact"
    /\ resp.args["email"] = InvalidEmail
    /\ resp.status = 422

\* C8: GET /reels on a connected store answers at most 50 records whatever
\* limit is requested and however many reels are stored.
C8_ReelsAtMostCeiling ==
    (db # None /\ resp.op = "GET /reels") => Len(resp.items) <= 50

C8_Witness ==
    /\ db # None
    /\ resp.op = "GET /reels"
    /\ resp.args.limit = 1000
    /\ Len(store[COL_REEL]) > 50
    /\ Len(resp.items) = 50

\* C9: GET /reels with limit <= 0 answers 200 with an empty list, from the
\* store as well as from the Fallback Catalog.
C9_NonPositiveLimitEmpty ==
    (resp.op = "GET /reels" /\ resp.args.limit <= 0) =>
        /\ resp.status = 200
        /\ resp.items = <<>>

\* C10: a read on a connected store that succeeds on an empty collection
\* answers the empty list, not the Fallback Catalog.  (Every step that is not
\* a request changes pc or now, so a step that changes neither is the request
\* that resp' answers.)
C10_EmptyCollectionNoFallback ==
    [][(/\ pc' = pc
        /\ now' = now
        /\ resp'.op \in {"GET /metrics", "GET /reels"}
        /\ db # None
        /\ ~resp'.calls[1].raised
        /\ store[IF resp'.op = "GET /metrics" THEN COL_METRIC ELSE COL_REEL] = <<>>)
          => (resp'.status = 200 /\ resp'.items = <<>>)]_vars

C10_Witness ==
    /\ db # None
    /\ resp.op = "GET /metrics"
    /\ ~resp.calls[1].raised
    /\ store[COL_METRIC] = <<>>
    /\ resp.items = <<>>

HoldsCorruptMetric ==
    \E j \in 1..Len(store[COL_METRIC]) : ~MetricValid(pop_id(store[COL_METRIC][j]))

HoldsCorruptReel ==
    store[COL_REEL] # <<>> /\ ~ReelValid(pop_id(store[COL_REEL][1]))

\* C11: a read on a connected store that succeeds but returns a record that
\* fails schema validation makes the request fail; it is not answered 200
\* with Fallback Catalog data.
C11_ValidationErrorFatal ==
    /\ (/\ db # None
        /\ resp.op = "GET /metrics"
        /\ ~resp.calls[1].raised
        /\ HoldsCorruptMetric) => resp.status >= 400
    /\ (/\ db # None
        /\ resp.op = "GET /reels"
        /\ resp.args.limit >= 1
        /\ ~resp.calls[1].raised
        /\ HoldsCorruptReel) => resp.status >= 400

StartupPositions == {"init", "seed_data", "seed_metric", "count_reel", "seed_reel"}

\* C12: with db None the startup performs no store operation and does not
\* raise: no index is created, no collection is counted or changed, and
\* on_startup runs through ensure_indexes and seed_data to serving.
C12_UnconfiguredStartupNoOp ==
    db = None =>
        /\ indexes = {}
        /\ store[COL_METRIC] \in InitMetrics
        /\ store[COL_REEL] \in InitReels
        /\ pc[Instance] \in {"init", "seed_data", "serving"}
        /\ loop[Instance] = 0

C12_Witness ==
    /\ db = None
    /\ pc[Instance] = "serving"
    /\ indexes = {}
    /\ resp.op = "GET /health"

\* C13: the startup steps are independently fault-tolerant: whether or not
\* ensure_indexes raised, seed_data runs next; and whether or not the count or
\* an insert of the metric collection raised, the reel collection is handled
\* next.
C13_StartupStepsIndependent ==
    [][/\ (pc[Instance] = "init" /\ pc'[Instance] # "init")
             => pc'[Instance] = "seed_data"
       /\ (/\ db # None
           /\ pc[Instance] \in {"seed_data", "seed_metric"}
           /\ pc'[Instance] \notin {"seed_data", "seed_metric"})
             => pc'[Instance] = "count_reel"]_vars

\* ---- a startup on which every store operation succeeds ------------------
\* the step is a startup step of the instance in which a store call raised:
\* on_startup went from a step straight to serving although the step had more
\* to do
StartupStepFails ==
    /\ db # None
    /\ pc'[Instance] = "serving"
    /\ \/ pc[Instance] \in {"init", "seed_data", "seed_metric"}
       \/ pc[Instance] = "count_reel" /\ needs_seed(store[COL_REEL])
       \/ pc[Instance] = "seed_reel" /\ store' = store

NextAllSucceed ==
    \/ EnsureIndexes(Instance) /\ ~StartupStepFails
    \/ CountMetric(Instance) /\ ~StartupStepFails
    \/ SeedMetric(Instance) /\ ~StartupStepFails
    \/ CountReel(Instance) /\ ~StartupStepFails
    \/ SeedReel(Instance) /\ ~StartupStepFails
    \/ Restart(Instance)
    \/ Tick

SpecAllSucceed == Init /\ [][NextAllSucceed]_vars

SeededMetrics(coll) ==
    /\ Len(coll) = 1
    /\ IsSeedMetric(coll[1])
    /\ coll[1]["_id"] = 1

SeededReels(coll) ==
    /\ Len(coll) = 2
    /\ \A i \in 1..2 :
         /\ coll[i]["title"] = CatalogTitles[i]
         /\ coll[i]["views"] = CatalogViews[i]
         /\ pop_id(coll[i]) = SEED_REELS[i]

\* C14: after a startup on a connected store on which every operation
\* succeeded, a collection that was empty before holds exactly the catalog
\* records (1 metric; 2 reels in catalog order) and a collection that was not
\* empty is as it was, each collection on its own.  (A collection that is not
\* empty is never changed by a later startup, so "before" is the initial
\* content.)
C14_StartupSeedsEmptyCollections ==
    (db # None /\ pc[Instance] = "serving") =>
        \E m0 \in InitMetrics, r0 \in InitReels :
            /\ IF m0 = <<>> THEN SeededMetrics(store[COL_METRIC])
                            ELSE store[COL_METRIC] = m0
            /\ IF r0 = <<>> THEN SeededReels(store[COL_REEL])
                            ELSE store[COL_REEL] = r0

\* the metric collection was not empty and is unchanged, the reel collection
\* was empty and has been seeded
C14_Witness ==
    /\ db # None
    /\ pc[Instance] = "serving"
    /\ store[COL_METRIC] = <<CorruptMetric>>
    /\ SeededReels(store[COL_REEL])

\* ---- two instances started against the same store -----------------------
NextTwoInstances ==
    \E p \in Procs :
        \/ EnsureIndexes(p)
        \/ CountMetric(p)
        \/ SeedMetric(p)
        \/ CountReel(p)
        \/ SeedReel(p)
        \/ Restart(p)

SpecTwoInstances == Init /\ [][NextTwoInstances]_vars

SeedMetricCopies ==
    Cardinality({j \in 1..Len(store[COL_METRIC]) : IsSeedMetric(store[COL_METRIC][j])})

SeedReelCopies(i) ==
    Cardinality({j \in 1..Len(store[COL_REEL]) :
                    store[COL_REEL][j]["title"] = CatalogTitles[i]})

\* C15: the empty check and the inserts of seed_data are separate store
\* operations, so two instances can both pass the check of an empty
\* collection before either inserts and the seed records end up duplicated
\* (the witness); the check still limits the damage to one copy of each seed
\* record per instance, however often the instances are started again.
C15_OneCopyPerInstanceAtMost ==
    /\ SeedMetricCopies <= Cardinality(Procs)
    /\ \A i \in 1..Len(CatalogTitles) : SeedReelCopies(i) <= Cardinality(Procs)

\* both instances have finished their startup and every seed record is there
\* twice
C15_Witness ==
    /\ \A p \in Procs : pc[p] = "serving"
    /\ Len(store[COL_METRIC]) = 2
    /\ SeedMetricCopies = 2
    /\ Len(store[COL_REEL]) = 4
    /\ \A i \in 1..Len(CatalogTitles) : SeedReelCopies(i) = 2

\* C16: no step changes the store handle, whether or not a store operation
\* failed in it, and GET /health reports the state the handle got when the
\* module was imported.
C16_HandleStateFixed ==
    [][/\ db' = db
       /\ resp'.op = "GET /health" =>
            resp'.json.database = IF db = None THEN "not_configured" ELSE "connected"]_vars

\* the startup failed at its first store call; the handle is still connected
\* and a later health request says so
C16_Witness ==
    /\ db # None
    /\ pc[Instance] = "serving"
    /\ indexes = {}
    /\ resp.op = "GET /health"
    /\ resp.json.database = "connected"

\* C17: two fallback answers to the same read (GET /metrics, or GET /reels
\* with the same limit) are equal in every field, timestamps included,
\* whenever they are made.
C17_FallbackIdenticalAcrossCalls ==
    [][(/\ pc' = pc
        /\ now' = now
        /\ resp'.op \in {"GET /metrics", "GET /reels"}
        /\ resp.op = resp'.op
        /\ resp.args = resp'.args
        /\ resp.calls[1].raised
        /\ resp'.calls[1].raised)
          => resp'.items = resp.items]_vars

\* C18: a contact document is stored with received_at equal to the server
\* clock at the time of the request, also when the request body carries a
\* received_at of its own.
C18_ReceivedAtServerAssigned ==
    [][Len(store'[COL_CONTACT]) > Len(store[COL_CONTACT]) =>
          store'[COL_CONTACT][Len(store'[COL_CONTACT])]["received_at"] = now]_vars

\* a request whose body carried a received_at has been stored
C18_Witness ==
    /\ db # None
    /\ resp.op = "POST /contact"
    /\ resp.status = 200
    /\ "received_at" \in DOMAIN resp.args
    /\ store[COL_CONTACT] # <<>>
    /\ store[COL_CONTACT][Len(store[COL_CONTACT])]["received_at"] # resp.args["received_at"]

\* C19: seed_data starts inserting into a collection only when it is empty:
\* while the instance is not inside the insert loop of a collection, a
\* collection that holds a document is not changed and its insert loop is not
\* entered.  So a reel collection
\* left with the first seed reel only (the second insert raised) keeps exactly
\* that one reel through every later startup.
C19_PartialSeedNeverCompleted ==
    [][/\ (store[COL_REEL] # <<>> /\ pc[Instance] # "seed_reel")
             => (store'[COL_REEL] = store[COL_REEL] /\ pc'[Instance] # "seed_reel")
       /\ (store[COL_METRIC] # <<>> /\ pc[Instance] # "seed_metric")
             => (store'[COL_METRIC] = store[COL_METRIC] /\ pc'[Instance] # "seed_metric")]_vars

\* a later startup is about to count a reel collection that holds the first
\* seed reel only
C19_Witness ==
    /\ pc[Instance] = "count_reel"
    /\ Len(store[COL_REEL]) = 1
    /\ store[COL_REEL][1]["title"] = "Pad work with a twist"

\* C20: on_startup never raises: whichever index creation, count or insert
\* fails, the instance is either still in a step of its startup or serving
\* requests, never stopped by the exception.
C20_StartupNeverRaises ==
    pc[Instance] \in StartupPositions \cup {"serving"}

\* the second create_index raised (one index exists, seed_data never ran) and
\* the instance has answered a request since
C20_Witness ==
    /\ db # None
    /\ pc[Instance] = "serving"
    /\ Cardinality(indexes) = 1
    /\ store[COL_METRIC] = <<>>
    /\ resp.op = "GET /reels"
====
